---- MODULE Spec2Model ----
(***************************************************************************)
(* Direct-to-storage upload broker: src/core/views.py (UploadInitView,     *)
(* UploadCompleteView, LocalUploadView), src/core/storage.py               *)
(* (CloudStorageService) and src/core/models.py (UploadTransaction).       *)
(*                                                                         *)
(* Every request is served by a handler that runs independently of the     *)
(* others; the handlers share the UploadTransaction table and the storage  *)
(* backends.  A handler is cut into steps at its accesses to the table and *)
(* to storage, so that handlers interleave between those accesses.         *)
(***************************************************************************)
EXTENDS Integers, Sequences, FiniteSets, TLC

(* ----------------------------- bounds --------------------------------- *)
MaxTxns == 2        \* rows ever created (uuid4 values handed out)
MaxSize == 1        \* largest declared file_size / request body length
MaxClock == 3       \* timezone.now() readings
MaxNameLen == 3     \* longest filename tried when every filename is tried

(* --------------------------- value spaces ----------------------------- *)
\* the handlers that can be running at the same time
Procs == {"h1", "h2"}
Ids == 1..MaxTxns
Users == {"A", "B"}
Backends == {"aws", "gcs", "azure", "local"}
\* a client-supplied filename is a string, modelled as a sequence of characters
FileNames == {<<>>, <<"d", "/", "a">>}
\* request.data.get(...) yields None when the field is missing: <<>>, else <<v>>
Sizes == {<<>>} \cup {<<n>> : n \in -1..MaxSize}
ContentTypes == {<<>>, <<"application/pdf">>}
\* the initiate requests tried: user A states the content type and also sends
\* negative sizes, user B leaves the content type to its default
InitRequests ==
    {r \in [user : Users, filename : FileNames, file_size : Sizes,
            content_type : ContentTypes] :
        /\ (r.content_type = <<>>) = (r.user = "B")
        /\ (r.file_size = <<-1>>) => (r.user = "A")}
\* every filename of up to MaxNameLen characters: a letter, the dot and the
\* path separator
Chars == {"a", ".", "/"}
Names == UNION {[1..n -> Chars] : n \in 0..MaxNameLen}
\* the initiate requests with which every filename is tried
NameRequests ==
    [user : {"A"}, filename : Names, file_size : {<<MaxSize>>}, content_type : {<<>>}]
BodyLens == 0..MaxSize
TidArgs == {<<>>} \cup {<<t>> : t \in Ids}

VARIABLES
    STORAGE_BACKEND,  \* settings.STORAGE_BACKEND
    store,            \* the UploadTransaction table: primary key -> row
    objects,          \* the objects in each backend: backend -> set of keys
    nextId,           \* the next uuid4 value
    clock,            \* the next reading of timezone.now()
    pc,               \* where each handler is
    caller,           \* each handler's request.user
    txn,              \* each handler's variable `transaction`
    reply             \* the request answered by the step just taken, with its response

vars == <<STORAGE_BACKEND, store, objects, nextId, clock, pc, caller, txn, reply>>

(* ------------------------- UploadTransaction -------------------------- *)
\* models.py: the fields of a row; object_key is a CharField without a
\* default, so a row created without it holds the empty string
NewRow(id, user, filename, file_size, content_type, backend, now) ==
    [id |-> id, user |-> user, object_key |-> <<>>, filename |-> filename,
     file_size |-> file_size, content_type |-> content_type,
     status |-> "PENDING", created_at |-> now, completed_at |-> <<>>,
     backend_used |-> backend]

\* the handler's variable `transaction` before anything is assigned to it
NoInstance == [id |-> 0]

\* Model.save(): UPDATE of every column of the row with this primary key,
\* and an INSERT when no such row exists
SaveRow(s, row) == [t \in (DOMAIN s) \cup {row.id} |-> IF t = row.id THEN row ELSE s[t]]

\* Model.delete()
DeleteRow(s, id) == [t \in (DOMAIN s) \ {id} |-> s[t]]

\* the lookup by primary key alone
get_object_or_404_any_user(s, id, user) == {s[t] : t \in {u \in DOMAIN s : u = id}}

\* get_object_or_404(UploadTransaction, id=..., user=...): the set of rows
\* the query matches (empty: Http404)
get_object_or_404(s, id, user) == {s[t] : t \in {u \in DOMAIN s : u = id /\ s[u].user = user}}

(* ------------------------------ KeyNamer ------------------------------ *)
\* os.path.basename: what follows the last "/"
RECURSIVE basename(_)
basename(name) ==
    IF name = <<>> THEN <<>>
    ELSE IF name[Len(name)] = "/" THEN <<>>
    ELSE Append(basename(SubSeq(name, 1, Len(name) - 1)), name[Len(name)])

\* CloudStorageService._generate_key
_generate_key(transaction_id, filename) ==
    <<"uploads", "/", transaction_id, "/">> \o basename(filename)

\* views.py line 53: the key UploadInitView stores in the row
InitObjectKey(id, filename) ==
    <<"uploads", "/", ToString(id), "/">> \o basename(filename)

(* ------------------------ CloudStorageService ------------------------- *)
\* UploadConfig(url, method, headers); a URL is (where it points, what it names)
UploadConfig(url, method, headers) == [url |-> url, method |-> method, headers |-> headers]

_get_aws_presigned_url(key, content_type) ==
    UploadConfig(<<"aws", key>>, "PUT", {<<"Content-Type", content_type>>})

_get_gcs_signed_url(key, content_type) ==
    UploadConfig(<<"gcs", key>>, "PUT", {<<"Content-Type", content_type>>})

_get_azure_sas_url(key, content_type) ==
    UploadConfig(<<"azure", key>>, "PUT",
                 {<<"Content-Type", content_type>>, <<"x-ms-blob-type", "BlockBlob">>})

\* a URL that names the object key instead of the transaction
_get_local_upload_url_for_key(transaction_id, key) ==
    UploadConfig(<<"local-upload", key>>, "PUT", {})

\* reverse('api:local-upload', transaction_id=...)
_get_local_upload_url(transaction_id, key) ==
    UploadConfig(<<"local-upload", transaction_id>>, "PUT", {})

\* generate_upload_config, when the backend's signing call succeeds
generate_upload_config(backend, transaction_id, filename, content_type) ==
    LET key == _generate_key(transaction_id, filename)
    IN  IF backend = "aws" THEN _get_aws_presigned_url(key, content_type)
        ELSE IF backend = "gcs" THEN _get_gcs_signed_url(key, content_type)
        ELSE IF backend = "azure" THEN _get_azure_sas_url(key, content_type)
        ELSE _get_local_upload_url(transaction_id, key)

\* _check_aws: head_object answers only for an object that is there; a
\* missing boto3 or any exception of the call (probeOk = FALSE) gives False
_check_aws(objs, key, probeOk) == probeOk /\ key \in objs["aws"]

\* _check_local is called by check_exists but defined nowhere; the branch
\* that calls it needs backend = 'default', which is none of the backends

\* check_exists
check_exists(backend, objs, key, probeOk) ==
    IF backend = "aws" THEN _check_aws(objs, key, probeOk)
    ELSE TRUE

(* --------------------------- local storage ---------------------------- *)
\* Storage.get_available_name: a taken name gets a random suffix; the
\* suffixed copies of one name are kept as one element
AvailableName(name, files) ==
    IF name \in files THEN Append(name, "_random") ELSE name

\* validate_file_name: a name whose last segment is empty, "." or ".." is
\* refused (SuspiciousFileOperation)
ValidFileName(name) == basename(name) \notin {<<>>, <<".">>, <<".", ".">>}

(* ----------------------------- responses ------------------------------ *)
Response(code, body) == [code |-> code, body |-> body]
ErrorBody(msg) == [error |-> msg]

Reply(request, response) == [req |-> request, resp |-> response]
NoReply == Reply([op |-> "none"], Response(0, ErrorBody("none")))

InitRequest(user, filename, file_size) ==
    [op |-> "initiate", user |-> user, filename |-> filename, file_size |-> file_size]
CompleteRequest(user, tid) == [op |-> "complete", user |-> user, tid |-> tid]
LocalUploadRequest(user, tid, bodyLen) ==
    [op |-> "local_upload", user |-> user, tid |-> tid, body |-> bodyLen]

\* `not value` for a request field: a missing value (None) is falsy, and so
\* are the empty string and the number 0
FalsyText(v) == v = <<>>
FalsyNumber(v) == v = <<>> \/ v = <<0>>

(* ------------------------------- Init --------------------------------- *)
Init ==
    /\ STORAGE_BACKEND \in Backends
    /\ store = [t \in {} |-> NoInstance]
    /\ objects = [b \in Backends |-> {}]
    /\ nextId = 1
    /\ clock = 1
    /\ pc = [p \in Procs |-> "idle"]
    /\ caller = [p \in Procs |-> "nobody"]
    /\ txn = [p \in Procs |-> NoInstance]
    /\ reply = NoReply

\* the handler returns its response and its variables are gone
Finish(p, request, response) ==
    /\ pc' = [pc EXCEPT ![p] = "idle"]
    /\ caller' = [caller EXCEPT ![p] = "nobody"]
    /\ txn' = [txn EXCEPT ![p] = NoInstance]
    /\ reply' = Reply(request, response)

(* --------------------------- UploadInitView --------------------------- *)
\* post, lines 19-34: validation and UploadTransaction.objects.create
InitStart(p, user, filename, file_size, content_type) ==
    /\ reply = NoReply
    /\ pc[p] = "idle"
    /\ IF FalsyText(filename) \/ FalsyNumber(file_size)
       THEN /\ Finish(p, InitRequest(user, filename, file_size),
                      Response(400, ErrorBody("filename and file_size are required")))
            /\ UNCHANGED <<STORAGE_BACKEND, store, objects, nextId, clock>>
       ELSE /\ nextId <= MaxTxns
            /\ clock <= MaxClock
            /\ LET ct == IF content_type = <<>> THEN "application/octet-stream"
                         ELSE content_type[1]
                   row == NewRow(nextId, user, filename, file_size[1], ct,
                                 STORAGE_BACKEND, clock)
               IN  /\ store' = SaveRow(store, row)
                   /\ txn' = [txn EXCEPT ![p] = row]
            /\ caller' = [caller EXCEPT ![p] = user]
            /\ nextId' = nextId + 1
            /\ clock' = clock + 1
            /\ pc' = [pc EXCEPT ![p] = "init_created"]
            /\ reply' = NoReply
            /\ UNCHANGED <<STORAGE_BACKEND, objects>>

\* post, lines 36-61: generate_upload_config returned the grant; the key is
\* assigned and the instance saved
InitFinishOk(p) ==
    /\ reply = NoReply
    /\ pc[p] = "init_created"
    /\ LET config == generate_upload_config(STORAGE_BACKEND, ToString(txn[p].id),
                                            txn[p].filename, txn[p].content_type)
           row == [txn[p] EXCEPT !.object_key = InitObjectKey(txn[p].id, txn[p].filename)]
       IN  /\ store' = SaveRow(store, row)
           /\ Finish(p, InitRequest(caller[p], row.filename, <<row.file_size>>),
                     Response(200, [upload_url |-> config.url, method |-> config.method,
                                    headers |-> config.headers,
                                    transaction_id |-> row.id]))
    /\ UNCHANGED <<STORAGE_BACKEND, objects, nextId, clock>>

\* an except branch that logs and answers but leaves the row
RollbackSkipped(s, id) == s

\* what the except branch does to the table: transaction.delete()
Rollback(s, id) == DeleteRow(s, id)

\* post, lines 62-65: generate_upload_config raised (the SDK is missing, the
\* signing call failed, the URL could not be reversed)
InitFinishFail(p) ==
    /\ reply = NoReply
    /\ pc[p] = "init_created"
    /\ store' = Rollback(store, txn[p].id)
    /\ Finish(p, InitRequest(caller[p], txn[p].filename, <<txn[p].file_size>>),
              Response(500, ErrorBody("issuance failed")))
    /\ UNCHANGED <<STORAGE_BACKEND, objects, nextId, clock>>

(* ------------------------- UploadCompleteView ------------------------- *)
\* post, lines 71-75: the transaction_id check and get_object_or_404
CompleteStart(p, user, tid) ==
    /\ reply = NoReply
    /\ pc[p] = "idle"
    /\ IF FalsyNumber(tid)
       THEN Finish(p, CompleteRequest(user, tid),
                   Response(400, ErrorBody("transaction_id required")))
       ELSE LET found == get_object_or_404(store, tid[1], user)
            IN  IF found = {}
                THEN Finish(p, CompleteRequest(user, tid), Response(404, ErrorBody("Not found")))
                ELSE /\ txn' = [txn EXCEPT ![p] = CHOOSE r \in found : TRUE]
                     /\ caller' = [caller EXCEPT ![p] = user]
                     /\ pc' = [pc EXCEPT ![p] = "complete_loaded"]
                     /\ reply' = NoReply
    /\ UNCHANGED <<STORAGE_BACKEND, store, objects, nextId, clock>>

\* post, lines 77-78 and 86-87: CloudStorageService() reads the configured
\* backend, check_exists probes it for the key of the loaded instance
CompleteProbe(p, probeOk) ==
    /\ reply = NoReply
    /\ pc[p] = "complete_loaded"
    /\ IF check_exists(STORAGE_BACKEND, objects, txn[p].object_key, probeOk)
       THEN /\ pc' = [pc EXCEPT ![p] = "complete_found"]
            /\ reply' = NoReply
            /\ UNCHANGED <<caller, txn>>
       ELSE Finish(p, CompleteRequest(caller[p], <<txn[p].id>>),
                   Response(404, ErrorBody("File not found in storage")))
    /\ UNCHANGED <<STORAGE_BACKEND, store, objects, nextId, clock>>

\* the status assignment without the timestamp
MarkCompletedNoStamp(row, now) == [row EXCEPT !.status = "COMPLETED"]

\* post, lines 79-80: the assignments to the loaded instance
MarkCompleted(row, now) == [row EXCEPT !.status = "COMPLETED", !.completed_at = <<now>>]

\* post, line 81: transaction.save() writes the instance whatever the row
\* holds by now
CompleteWrite(s, row) == SaveRow(s, row)

\* post, lines 79-85
CompleteSave(p) ==
    /\ reply = NoReply
    /\ pc[p] = "complete_found"
    /\ clock <= MaxClock
    /\ LET row == MarkCompleted(txn[p], clock)
       IN  /\ store' = CompleteWrite(store, row)
           /\ Finish(p, CompleteRequest(caller[p], <<row.id>>),
                     Response(200, [status |-> "success", file_url |-> row.object_key]))
    /\ clock' = clock + 1
    /\ UNCHANGED <<STORAGE_BACKEND, objects, nextId>>

(* --------------------------- LocalUploadView -------------------------- *)
\* handle_upload, lines 111-114: the size comparison, whose branch is `pass`
SizeAccepted(bodyLen, file_size) == TRUE

\* default_storage.save(name, content): the files afterwards
StorageSave(files, name) == files \cup {AvailableName(name, files)}

\* an upload handler that marks the transaction completed once the bytes are in
UploadWriteCompletes(s, row) ==
    SaveRow(s, MarkCompleted(row, clock))

\* handle_upload after default_storage.save: the transaction is not touched,
\* there is no save() of it
UploadWrite(s, row) == s

\* handle_upload: the row is read once and never written, so the handler is
\* one step, taken when it writes the file
LocalUpload(p, user, tid, bodyLen) ==
    /\ reply = NoReply
    /\ pc[p] = "idle"
    /\ LET request == LocalUploadRequest(user, <<tid>>, bodyLen)
           found == get_object_or_404(store, tid, user)
           row == CHOOSE r \in found : TRUE
       IN  IF STORAGE_BACKEND # "local"
           THEN /\ Finish(p, request, Response(403, ErrorBody("Local upload not enabled")))
                /\ UNCHANGED <<objects, store>>
           ELSE IF found = {}
           THEN /\ Finish(p, request, Response(404, ErrorBody("Not found")))
                /\ UNCHANGED <<objects, store>>
           ELSE IF ~SizeAccepted(bodyLen, row.file_size)
           THEN /\ Finish(p, request, Response(409, ErrorBody("Size mismatch")))
                /\ UNCHANGED <<objects, store>>
           ELSE IF ~ValidFileName(row.object_key)
           THEN /\ Finish(p, request, Response(400, ErrorBody("Suspicious file name")))
                /\ UNCHANGED <<objects, store>>
           ELSE /\ objects' = [objects EXCEPT !["local"] = StorageSave(@, row.object_key)]
                /\ store' = UploadWrite(store, row)
                /\ Finish(p, request, Response(200, [status |-> "uploaded"]))
    /\ UNCHANGED <<STORAGE_BACKEND, nextId, clock>>

\* the response of the step just taken leaves the server; every other step
\* waits for that, which orders nothing but the bookkeeping of `reply`
Deliver ==
    /\ reply # NoReply
    /\ reply' = NoReply
    /\ UNCHANGED <<STORAGE_BACKEND, store, objects, nextId, clock, pc, caller, txn>>

(* ---------------------------- environment ----------------------------- *)
\* the client uses the grant of a transaction: PUT to the signed URL
ClientPut(t) ==
    /\ reply = NoReply
    /\ t \in DOMAIN store
    /\ store[t].object_key # <<>>
    /\ store[t].backend_used # "local"
    /\ store[t].object_key \notin objects[store[t].backend_used]
    /\ objects' = [objects EXCEPT ![store[t].backend_used] = @ \cup {store[t].object_key}]
    /\ reply' = NoReply
    /\ UNCHANGED <<STORAGE_BACKEND, store, nextId, clock, pc, caller, txn>>

\* an object leaves a backend (deleted by its owner, a lifecycle rule, ...)
ObjectRemoved(b, key) ==
    /\ reply = NoReply
    /\ key \in objects[b]
    /\ objects' = [objects EXCEPT ![b] = @ \ {key}]
    /\ reply' = NoReply
    /\ UNCHANGED <<STORAGE_BACKEND, store, nextId, clock, pc, caller, txn>>

\* settings.STORAGE_BACKEND is changed and the service restarted: no request
\* is being served
Reconfigure(b) ==
    /\ reply = NoReply
    /\ \A p \in Procs : pc[p] = "idle"
    /\ b # STORAGE_BACKEND
    /\ STORAGE_BACKEND' = b
    /\ reply' = NoReply
    /\ UNCHANGED <<store, objects, nextId, clock, pc, caller, txn>>

(* ------------------------------- Next --------------------------------- *)
Next ==
    \/ \E p \in Procs, r \in InitRequests :
          InitStart(p, r.user, r.filename, r.file_size, r.content_type)
    \/ \E p \in Procs : InitFinishOk(p)
    \/ \E p \in Procs : InitFinishFail(p)
    \/ \E p \in Procs, user \in Users, tid \in TidArgs : CompleteStart(p, user, tid)
    \/ \E p \in Procs, probeOk \in BOOLEAN : CompleteProbe(p, probeOk)
    \/ \E p \in Procs : CompleteSave(p)
    \/ \E p \in Procs, user \in Users, tid \in Ids, bodyLen \in BodyLens :
          LocalUpload(p, user, tid, bodyLen)
    \/ Deliver
    \/ \E t \in Ids : ClientPut(t)
    \/ \E b \in Backends : \E key \in objects[b] : ObjectRemoved(b, key)

Spec == Init /\ [][Next]_vars

\* the service with changes of its configuration between requests, serving
\* one request at a time
NextReconfigure ==
    \/ \E r \in InitRequests :
          InitStart("h1", r.user, r.filename, r.file_size, r.content_type)
    \/ InitFinishOk("h1")
    \/ InitFinishFail("h1")
    \/ \E user \in Users, tid \in TidArgs : CompleteStart("h1", user, tid)
    \/ \E probeOk \in BOOLEAN : CompleteProbe("h1", probeOk)
    \/ CompleteSave("h1")
    \/ \E user \in Users, tid \in Ids, bodyLen \in BodyLens :
          LocalUpload("h1", user, tid, bodyLen)
    \/ Deliver
    \/ \E t \in Ids : ClientPut(t)
    \/ \E b \in Backends : \E key \in objects[b] : ObjectRemoved(b, key)
    \/ \E b \in Backends : Reconfigure(b)

SpecReconfigure == Init /\ [][NextReconfigure]_vars

\* the service serving one request at a time, tried with every filename
NextSequential ==
    \/ \E r \in NameRequests :
          InitStart("h1", r.user, r.filename, r.file_size, r.content_type)
    \/ InitFinishOk("h1")
    \/ InitFinishFail("h1")
    \/ \E user \in Users, tid \in TidArgs : CompleteStart("h1", user, tid)
    \/ \E probeOk \in BOOLEAN : CompleteProbe("h1", probeOk)
    \/ CompleteSave("h1")
    \/ \E user \in Users, tid \in Ids, bodyLen \in BodyLens :
          LocalUpload("h1", user, tid, bodyLen)
    \/ Deliver
    \/ \E t \in Ids : ClientPut(t)
    \/ \E b \in Backends : \E key \in objects[b] : ObjectRemoved(b, key)

SpecSequential == Init /\ [][NextSequential]_vars

(* ======================== properties of the code ====================== *)
\* the step just taken answered a request
Answered == reply = NoReply /\ reply' # NoReply

\* the step just taken is a whole handler: it took the request and answered
AnsweredAtOnce == Answered /\ pc' = pc

\* the request is for a row that exists and belongs to another user
Foreign(r) ==
    /\ r.tid # <<>>
    /\ r.tid[1] \in DOMAIN store
    /\ store[r.tid[1]].user # r.user

\* the request is for an id without a row
Unknown(r) == r.tid # <<>> /\ r.tid[1] \notin DOMAIN store

NotFoundResponse == Response(404, ErrorBody("Not found"))

\* C1: complete on a transaction whose grant was issued reports success (its
\* probe is positive, so it goes on to mark the transaction Completed) only if
\* an object exists at the transaction's key in the configured backend at the
\* time of the probe.
C1_SuccessOnlyIfObjectExists ==
    [][\A p \in Procs :
          (/\ pc[p] = "complete_loaded" /\ pc'[p] = "complete_found"
           /\ txn[p].object_key # <<>>)
              => txn[p].object_key \in objects[STORAGE_BACKEND]]_vars

\* C2: a complete that has loaded an already Completed transaction answers
\* with the success result at once, without probing storage.
C2_CompleteIdempotent ==
    [][\A p \in Procs :
          (pc[p] = "complete_loaded" /\ txn[p].status = "COMPLETED"
                                     /\ pc'[p] # "complete_loaded")
              => reply' = Reply(CompleteRequest(caller[p], <<txn[p].id>>),
                                Response(200, [status |-> "success",
                                               file_url |-> txn[p].object_key]))]_vars

\* C3: of two complete calls that both loaded the transaction as Pending and
\* whose object exists, only one writes: the write of the call that finds the
\* stored status already Completed leaves the table as it is.
C3_OneConditionalWrite ==
    [][\A p \in Procs :
          (/\ pc[p] = "complete_found" /\ pc'[p] = "idle"
           /\ txn[p].status = "PENDING"
           /\ txn[p].object_key \in objects[STORAGE_BACKEND]
           /\ txn[p].id \in DOMAIN store
           /\ store[txn[p].id].status = "COMPLETED")
              => store' = store]_vars

\* C4 as stated: complete and local-upload by another user than the owner
\* answer NotFound and change neither the table nor storage.
C4_ForeignIsNotFound ==
    [][(Answered /\ reply'.req.op \in {"complete", "local_upload"} /\ Foreign(reply'.req))
          => (reply'.resp = NotFoundResponse /\ store' = store /\ objects' = objects)]_vars

\* the answer to a request for an id that has no row
UnknownIdResponse(r) ==
    IF r.op = "local_upload" /\ STORAGE_BACKEND # "local"
    THEN Response(403, ErrorBody("Local upload not enabled"))
    ELSE NotFoundResponse

\* C4 as amended: complete and local-upload by another user than the owner get
\* the answer an id without a row gets - NotFound, or for local-upload while
\* the configured backend is not local the 403 of the disabled endpoint - and
\* change neither the table nor storage.
C4_ForeignIsLikeUnknown ==
    [][(/\ reply'.req.op \in {"complete", "local_upload"}
        /\ \/ Answered /\ Foreign(reply'.req)
           \/ AnsweredAtOnce /\ Unknown(reply'.req))
          => (/\ reply'.resp = UnknownIdResponse(reply'.req)
              /\ store' = store /\ objects' = objects)]_vars

\* a request of user B for a row of user A has been answered NotFound
C4_Witness ==
    /\ reply.req.op \in {"complete", "local_upload"}
    /\ reply.req.user = "B"
    /\ Foreign(reply.req)
    /\ reply.resp = NotFoundResponse

\* a Pending row without a key belongs to an initiate that is still running
NoPendingWithoutGrant ==
    \A t \in DOMAIN store :
        (store[t].status = "PENDING" /\ store[t].object_key = <<>>)
            => \E p \in Procs : pc[p] = "init_created" /\ txn[p].id = t

\* C5: when initiate answers with the error of a failed issuance, the row it
\* created is gone and every other row is as it was, and at no time is there a
\* Pending row for which no grant was returned and no initiate is running.
C5_Rollback ==
    [][/\ \A p \in Procs :
            (pc[p] = "init_created" /\ pc'[p] = "idle" /\ reply'.resp.code = 500)
                => /\ txn[p].id \notin DOMAIN store'
                   /\ \A t \in DOMAIN store' : t \in DOMAIN store /\ store'[t] = store[t]
                   /\ \A t \in DOMAIN store : t # txn[p].id => t \in DOMAIN store'
       /\ NoPendingWithoutGrant']_vars

\* initiate answered 500 and the only row ever created is not in the table
C5_Witness ==
    /\ reply.req.op = "initiate"
    /\ reply.resp.code = 500
    /\ reply.req.file_size[1] > 0
    /\ nextId = 2
    /\ DOMAIN store = {}

\* filename present, size present and not negative
ValidInit(r) ==
    /\ r.filename # <<>>
    /\ r.file_size # <<>>
    /\ r.file_size[1] >= 0

\* C6: a valid initiate (size 0 included) is answered either with the error of
\* a failed issuance or with a transaction id and a grant, and then the row of
\* that id is Pending, owned by the caller, with the key the KeyNamer derives.
C6_ValidInitiateSucceeds ==
    [][(Answered /\ reply'.req.op = "initiate" /\ ValidInit(reply'.req))
          => \/ reply'.resp.code = 500
             \/ /\ reply'.resp.code = 200
                /\ LET t == reply'.resp.body.transaction_id
                   IN  /\ t \in DOMAIN store'
                       /\ store'[t].status = "PENDING"
                       /\ store'[t].user = reply'.req.user
                       /\ store'[t].object_key
                              = _generate_key(ToString(t), reply'.req.filename)]_vars

\* C7: a stored status that is Completed or Failed is never changed.
C7_StatusMonotonic ==
    [][\A t \in DOMAIN store :
          (store[t].status # "PENDING" /\ t \in DOMAIN store')
              => store'[t].status = store[t].status]_vars

\* C8: a row has a completion timestamp if and only if its status is Completed.
C8_StampIffCompleted ==
    \A t \in DOMAIN store :
        (store[t].completed_at # <<>>) <=> (store[t].status = "COMPLETED")

\* a row is Completed and carries its timestamp
C8_Witness ==
    \E t \in DOMAIN store :
        store[t].status = "COMPLETED" /\ store[t].completed_at # <<>>

\* filename missing, size missing or size negative
InvalidInit(r) ==
    \/ r.filename = <<>>
    \/ r.file_size = <<>>
    \/ r.file_size[1] < 0

\* C9: initiate creates no row for a request with a negative size, and answers
\* every request whose filename or size is missing or whose size is negative
\* with 400, leaving the table as it is.
C9_InvalidRejected ==
    [][/\ \A p \in Procs :
            (pc[p] = "idle" /\ pc'[p] = "init_created") => txn'[p].file_size >= 0
       /\ (Answered /\ reply'.req.op = "initiate" /\ InvalidInit(reply'.req))
            => (reply'.resp.code = 400 /\ store' = store)]_vars

\* C10: on the local backend a local-upload by the owner of a transaction
\* whose grant was issued, with a body length that differs from the declared
\* size, is answered SizeMismatch and stores nothing.
C10_SizeMismatchRejected ==
    [][(/\ Answered /\ reply'.req.op = "local_upload"
        /\ STORAGE_BACKEND = "local"
        /\ reply'.req.tid[1] \in DOMAIN store
        /\ store[reply'.req.tid[1]].user = reply'.req.user
        /\ store[reply'.req.tid[1]].object_key # <<>>
        /\ reply'.req.body # store[reply'.req.tid[1]].file_size)
          => (reply'.resp.code = 409 /\ objects' = objects)]_vars

\* C11: the key stored for a transaction has the form uploads/{id}/{name},
\* where name holds no path separator and is neither "." nor "..".
C11_KeyInNamespace ==
    \A t \in DOMAIN store :
        LET key == store[t].object_key
        IN  key # <<>> =>
                /\ Len(key) >= 4
                /\ SubSeq(key, 1, 4) = <<"uploads", "/", ToString(t), "/">>
                /\ \A i \in 5..Len(key) : key[i] # "/"
                /\ SubSeq(key, 5, Len(key)) \notin {<<".">>, <<".", ".">>}

\* C12: no two transactions in the table have the same object key.
C12_KeysDistinct ==
    \A t1 \in DOMAIN store : \A t2 \in DOMAIN store :
        t1 # t2 => store[t1].object_key # store[t2].object_key

\* the outcomes check_exists can give for a key on a backend
ProbeOutcomes(backend, key) ==
    {check_exists(backend, objects, key, probeOk) : probeOk \in BOOLEAN}

\* C14: the outcome of complete's probe is an outcome of probing the backend
\* recorded in the transaction (backend_used) for the stored key, whatever
\* the configured backend is by then.
C14_ProbesRecordedBackend ==
    [][\A p \in Procs :
          (/\ pc[p] = "complete_loaded" /\ pc'[p] # "complete_loaded"
           /\ txn[p].object_key # <<>>)
              => (pc'[p] = "complete_found")
                     \in ProbeOutcomes(txn[p].backend_used, txn[p].object_key)]_vars

\* C15: a complete that has loaded a Pending transaction whose object is not
\* in the configured backend at the time of the probe answers
\* NotFoundInStorage and leaves the table as it is.
C15_MissingObjectNotFound ==
    [][\A p \in Procs :
          (/\ pc[p] = "complete_loaded" /\ pc'[p] # "complete_loaded"
           /\ txn[p].status = "PENDING"
           /\ txn[p].object_key # <<>>
           /\ txn[p].object_key \notin objects[STORAGE_BACKEND])
              => /\ reply' = Reply(CompleteRequest(caller[p], <<txn[p].id>>),
                                   Response(404, ErrorBody("File not found in storage")))
                 /\ store' = store]_vars

\* C16: a completion timestamp, once set, is never changed.
C16_StampWrittenOnce ==
    [][\A t \in DOMAIN store :
          (store[t].completed_at # <<>> /\ t \in DOMAIN store')
              => store'[t].completed_at = store[t].completed_at]_vars

\* C17: every row of the table has a non-empty object key, and no complete
\* has loaded a row with an empty key.
C17_KeyNeverEmpty ==
    /\ \A t \in DOMAIN store : store[t].object_key # <<>>
    /\ \A p \in Procs :
          pc[p] \in {"complete_loaded", "complete_found"} => txn[p].object_key # <<>>

\* C18: an initiate whose filename is given but has nothing after its last
\* path separator is answered 400 and leaves the table as it is, and no row has
\* the key uploads/{id}/.
C18_EmptyNameRejected ==
    [][/\ (/\ Answered /\ reply'.req.op = "initiate"
            /\ reply'.req.filename # <<>>
            /\ reply'.req.filename[Len(reply'.req.filename)] = "/")
              => (reply'.resp.code = 400 /\ store' = store)
       /\ \A t \in DOMAIN store' :
              store'[t].object_key # <<"uploads", "/", ToString(t), "/">>]_vars

\* the row of the owner's own transaction that a request names
OwnRow(r) ==
    {store[t] : t \in {u \in DOMAIN store : r.tid = <<u>> /\ store[u].user = r.user}}

\* C13: on the local backend (a) a successful initiate returns a grant with
\* method PUT whose URL is the local-upload endpoint of the returned
\* transaction id, (b) a local-upload by the owner with exactly the declared
\* number of bytes, for a key storage accepts, answers 200 and the object is
\* in local storage at the key, (c) a complete by the owner of a transaction
\* whose grant was issued and whose object is there answers no error: it
\* answers success with the key - which is uploads/{id}/{filename} for a
\* filename without directories - and leaves the transaction Completed.
C13_LocalScenario ==
    [][/\ (/\ Answered /\ STORAGE_BACKEND = "local"
            /\ reply'.req.op = "initiate" /\ reply'.resp.code = 200)
              => /\ reply'.resp.body.method = "PUT"
                 /\ reply'.resp.body.upload_url
                        = <<"local-upload", ToString(reply'.resp.body.transaction_id)>>
       /\ (/\ Answered /\ STORAGE_BACKEND = "local"
            /\ reply'.req.op = "local_upload")
              => \A row \in OwnRow(reply'.req) :
                     (/\ row.object_key # <<>>
                      /\ ValidFileName(row.object_key)
                      /\ reply'.req.body = row.file_size)
                        => /\ reply'.resp = Response(200, [status |-> "uploaded"])
                           /\ row.object_key \in objects'["local"]
       /\ (/\ Answered /\ STORAGE_BACKEND = "local"
            /\ reply'.req.op = "complete" /\ reply'.resp.code # 200)
              => \A row \in OwnRow(reply'.req) :
                     ~(row.object_key # <<>> /\ row.object_key \in objects["local"])
       /\ \A p \in Procs :
            (/\ pc[p] = "complete_found" /\ pc'[p] = "idle"
             /\ STORAGE_BACKEND = "local"
             /\ txn[p].object_key # <<>>
             /\ txn[p].object_key \in objects["local"])
              => /\ reply' = Reply(CompleteRequest(txn[p].user, <<txn[p].id>>),
                                   Response(200, [status |-> "success",
                                                  file_url |-> txn[p].object_key]))
                 /\ ("/" \notin {txn[p].filename[i] : i \in 1..Len(txn[p].filename)}
                       => txn[p].object_key
                            = <<"uploads", "/", ToString(txn[p].id), "/">> \o txn[p].filename)
                 /\ store'[txn[p].id].status = "COMPLETED"]_vars

\* on the local backend a complete has answered success with the key of an
\* uploaded object, and the transaction is Completed
C13_Witness ==
    /\ STORAGE_BACKEND = "local"
    /\ reply.req.op = "complete"
    /\ reply.resp.code = 200
    /\ \E row \in OwnRow(reply.req) :
          /\ row.status = "COMPLETED"
          /\ row.filename = <<"a">>
          /\ reply.resp.body.file_url = <<"uploads", "/", ToString(row.id), "/", "a">>
          /\ reply.resp.body.file_url \in objects["local"]

\* C19: no step of a complete removes a row or changes anything of a row but
\* the status and the completion timestamp of the transaction it loaded.
C19_CompleteFrame ==
    [][/\ (Answered /\ reply'.req.op = "complete" /\ reply'.resp.code # 200)
              => store' = store
       /\ \A p \in Procs :
            (pc[p] \in {"complete_loaded", "complete_found"} /\ pc'[p] # pc[p])
              => \A t \in DOMAIN store :
                     /\ t \in DOMAIN store'
                     /\ t # txn[p].id => store'[t] = store[t]
                     /\ [store'[t] EXCEPT !.status = store[t].status,
                                          !.completed_at = store[t].completed_at]
                            = store[t]]_vars

\* C20: a local-upload leaves the table as it is, and a transaction becomes
\* Completed only in the step in which a complete for it, after its probe
\* was positive, answers success.
C20_UploadLeavesRecords ==
    [][/\ (Answered /\ reply'.req.op = "local_upload") => store' = store
       /\ \A t \in DOMAIN store' :
            (/\ store'[t].status = "COMPLETED"
             /\ t \in DOMAIN store => store[t].status # "COMPLETED")
              => /\ Answered
                 /\ reply'.req.op = "complete"
                 /\ reply'.req.tid = <<t>>
                 /\ reply'.resp.code = 200
                 /\ \E p \in Procs : pc[p] = "complete_found" /\ pc'[p] = "idle"]_vars

\* a local-upload has stored the object and answered 200, and the
\* transaction is still Pending without a completion timestamp
C20_Witness ==
    /\ reply.req.op = "local_upload"
    /\ reply.resp = Response(200, [status |-> "uploaded"])
    /\ \E row \in OwnRow(reply.req) :
          /\ row.status = "PENDING"
          /\ row.completed_at = <<>>
          /\ row.object_key \in objects["local"]

====
